---- MODULE Spec2Model ----
(***************************************************************************)
(* Model of generate_grid.py: OptimalCirclePackingGrid and main.            *)
(*                                                                         *)
(* Coordinates (longitude x, latitude y) are integers in a degree unit      *)
(* chosen so that _meters_to_degrees(m, center_lat) is DegPerMeter * m.     *)
(* The country is a rectangle of the northern hemisphere.  PostGIS          *)
(* geography operations (ST_DWithin, ST_Buffer on ::geography) measure in   *)
(* metres: a degree of longitude at latitude y is worth CosAt(y) /          *)
(* CosAt(center_lat) of what it is worth at the centre latitude, and a      *)
(* degree of latitude CosDen / CosAt(center_lat).                           *)
(***************************************************************************)
EXTENDS Integers, Sequences, FiniteSets, TLC

VARIABLES
    pc,                 \* position of the program
    run,                \* number of invocations of main so far
    grid_cell,          \* rows of table grid_cell: [x, y, radius, level]
    start_radius,       \* argument of generate_optimal_coverage_grid
    min_radius,         \* argument of generate_optimal_coverage_grid
    level,              \* local of generate_optimal_coverage_grid
    total_circles,      \* local of generate_optimal_coverage_grid
    current_max_radius, \* local of generate_optimal_coverage_grid
    optimal_radius,     \* local of generate_optimal_coverage_grid
    left,               \* local of _find_largest_possible_radius
    right,              \* local of _find_largest_possible_radius
    best_radius,        \* local of _find_largest_possible_radius
    circles,            \* the current batch (list of centres)
    attempts,           \* iterations left of the random-fill loop
    prev_radius,        \* history: radius packed at the previous level
    prev_run            \* history: outcome of the previous invocation

vars == <<pc, run, grid_cell, start_radius, min_radius, level, total_circles,
          current_max_radius, optimal_radius, left, right, best_radius,
          circles, attempts, prev_radius, prev_run>>

-----------------------------------------------------------------------------
(* Bounds of the model *)

MaxRuns == 2
MaxStartRadius == 4
MaxMinRadius == 3
MaxRandomAttempts == 2
MaxStartAny == 52

(* Python's None for an Optional[int] *)
None == -1

(* Program constants *)
SafetyLimit == 50
RandomAttempts == 5000
ProbeAttempts == 100
BatchLimit == 1000

-----------------------------------------------------------------------------
(* Geometry *)

\* self.country_boundary.bounds: (minx, miny, maxx, maxy)
CountryBounds == <<0, 0, 70, 60>>
minx == CountryBounds[1]
miny == CountryBounds[2]
maxx == CountryBounds[3]
maxy == CountryBounds[4]

center_lat == (miny + maxy) \div 2

\* cos(latitude) as the fraction CosAt(y) / CosDen, decreasing northwards
CosDen == 200
CosAt(y) == 180 - y

\* degree units per metre at the centre latitude
DegPerMeter == 10

\* _meters_to_degrees(meters, center_lat); every call passes center_lat
MetersToDegrees(meters) == meters * DegPerMeter

Min(a, b) == IF a < b THEN a ELSE b

\* np.arange(a, b, step) as a sequence
ARange(a, b, step) ==
    IF a < b /\ step > 0
    THEN [k \in 1..(((b - a - 1) \div step) + 1) |-> a + (k - 1) * step]
    ELSE <<>>

\* _point_in_country: shapely contains() is true of interior points only
PointInCountry(x, y) == minx < x /\ x < maxx /\ miny < y /\ y < maxy

\* country_boundary.contains(Point(x, y).buffer(radius_deg))
BufferInCountry(x, y, radius_deg) ==
    /\ radius_deg > 0
    /\ x - radius_deg >= minx /\ x + radius_deg <= maxx
    /\ y - radius_deg >= miny /\ y + radius_deg <= maxy

\* ST_DWithin(a::geography, b::geography, meters): geodesic distance <= meters.
\* Both sides of the comparison are scaled by 2 * DegPerMeter * CosAt(center_lat).
DWithin(x1, y1, x2, y2, meters) ==
    LET dx == x1 - x2
        dy == y1 - y2
        c  == CosAt(y1) + CosAt(y2)
        m  == 2 * DegPerMeter * CosAt(center_lat) * meters
    IN  dx * dx * c * c + 4 * dy * dy * CosDen * CosDen <= m * m

\* _circle_conflicts_with_existing
CircleConflictsWithExisting(x, y, radius_meters) ==
    \E g \in grid_cell : DWithin(x, y, g.x, g.y, radius_meters + g.radius)

\* cdist(...) < 2 * radius_deg for some circle of the batch
BatchConflict(x, y, radius_deg, existing_circles) ==
    \E c \in existing_circles :
        (x - c[1]) * (x - c[1]) + (y - c[2]) * (y - c[2])
            < (2 * radius_deg) * (2 * radius_deg)

\* _can_place_circle
CanPlaceCircle(x, y, radius_meters, radius_deg, existing_circles) ==
    /\ PointInCountry(x, y)
    /\ BufferInCountry(x, y, radius_deg)
    /\ ~CircleConflictsWithExisting(x, y, radius_meters)
    /\ ~BatchConflict(x, y, radius_deg, existing_circles)

\* the candidates of a double loop "for x in xs: for y in ys", in loop order
LoopOrder(xs, ys) ==
    [k \in 1..(Len(xs) * Len(ys)) |->
        <<xs[((k - 1) \div Len(ys)) + 1], ys[((k - 1) % Len(ys)) + 1]>>]

\* grid_spacing = radius_deg * 1.8
GridSpacing(radius_deg) == (radius_deg * 18) \div 10

\* the systematic grid of _pack_circles_systematic
GridPoints(radius_deg) ==
    LoopOrder(ARange(minx + radius_deg, maxx - radius_deg, GridSpacing(radius_deg)),
              ARange(miny + radius_deg, maxy - radius_deg, GridSpacing(radius_deg)))

\* the loop "if can place: append", stopped once limit circles are held
\* (limit = None: never stopped)
RECURSIVE PlaceInOrder(_, _, _, _, _)
PlaceInOrder(pts, k, radius_meters, acc, limit) ==
    IF k > Len(pts) \/ (limit # None /\ Cardinality(acc) >= limit)
    THEN acc
    ELSE PlaceInOrder(pts, k + 1, radius_meters,
            IF CanPlaceCircle(pts[k][1], pts[k][2], radius_meters,
                              MetersToDegrees(radius_meters), acc)
            THEN acc \cup {pts[k]} ELSE acc,
            limit)

\* the systematic grid sampling phase of _pack_circles_systematic
GridPhase(radius_meters, max_circles) ==
    PlaceInOrder(GridPoints(MetersToDegrees(radius_meters)), 1, radius_meters,
                 {}, max_circles)

\* np.random.uniform(lo, hi): a value of [lo, hi); of (hi, lo] when lo > hi
Uniform(lo, hi) ==
    IF lo = hi THEN {lo} ELSE IF lo < hi THEN lo..(hi - 1) ELSE (hi + 1)..lo

\* the points one iteration of the random-fill loop can draw
RandomDraws(radius_deg) ==
    Uniform(minx + radius_deg, maxx - radius_deg)
        \X Uniform(miny + radius_deg, maxy - radius_deg)

\* test_circles non-empty for _pack_circles_systematic(mid, max_circles=1):
\* the grid phase, else min(ProbeAttempts, 1) = 1 random draw
ProbeResults(mid) ==
    IF GridPhase(mid, 1) # {} THEN {TRUE}
    ELSE IF Min(ProbeAttempts, 1 - 0) < 1 THEN {FALSE}
    ELSE {CanPlaceCircle(p[1], p[2], mid, MetersToDegrees(mid), {}) :
            p \in RandomDraws(MetersToDegrees(mid))}

\* point (x, y) lies within g.radius metres of the centre of a stored circle
IsCovered(x, y) == \E g \in grid_cell : DWithin(x, y, g.x, g.y, g.radius)

\* _get_uncovered_sample_points, in loop order
UncoveredSamplePoints(radius_meters) ==
    LET res == MetersToDegrees(radius_meters) \div 2
        all == LoopOrder(ARange(minx, maxx, res), ARange(miny, maxy, res))
    IN  SelectSeq(all, LAMBDA p : PointInCountry(p[1], p[2]) /\ ~IsCovered(p[1], p[2]))

\* the loop over the uncovered points: it breaks once len(circles) > BatchLimit
UncoveredPhase(radius_meters) ==
    PlaceInOrder(UncoveredSamplePoints(radius_meters), 1, radius_meters, {},
                 BatchLimit + 1)

-----------------------------------------------------------------------------
(* The program *)

\* the rows of table countries, and the codes main is invoked with
CountriesTable == {"DEU"}
CountryCodes == {"DEU", "XXX"}

NoRun == [finished |-> FALSE, total |-> 0, start |-> 0, min |-> 0]

Init ==
    /\ pc = "idle"
    /\ run = 0
    /\ grid_cell = {}
    /\ start_radius = 0
    /\ min_radius = 0
    /\ level = 0
    /\ total_circles = 0
    /\ current_max_radius = 0
    /\ optimal_radius = None
    /\ left = 0
    /\ right = 0
    /\ best_radius = None
    /\ circles = {}
    /\ attempts = 0
    /\ prev_radius = None
    /\ prev_run = NoRun

\* what the previous invocation returned, kept for comparing two runs
LastRun ==
    IF pc = "done"
    THEN [finished |-> TRUE, total |-> total_circles,
          start |-> start_radius, min |-> min_radius]
    ELSE NoRun

\* mutant: the DELETE is left out
ClearNothing == grid_cell

\* _clear_existing_grid: DELETE FROM grid_cell
ClearExistingGrid == {}

\* _get_country_boundary: the row of countries, or ValueError
CountryFound(country_code) == country_code \in CountriesTable

\* mutant: the grid is cleared before the country is looked up
GridAfterMainClearFirst(country_code) == ClearExistingGrid

\* table grid_cell after main has built the generator and, if that did not
\* raise, cleared the grid (main) and cleared it again (generate)
GridAfterMain(country_code) ==
    IF CountryFound(country_code) THEN ClearExistingGrid ELSE grid_cell

\* main(), up to the first evaluation of the while condition:
\* OptimalCirclePackingGrid(country_code) raises when the country is unknown,
\* before main's _clear_existing_grid and outside its try block; otherwise
\* the grid is cleared and generate_optimal_coverage_grid starts.
Main(country_code, sr, mr) ==
    /\ pc \in {"idle", "done", "error"}
    /\ run < MaxRuns
    /\ run' = run + 1
    /\ prev_run' = LastRun
    /\ start_radius' = sr
    /\ min_radius' = mr
    /\ level' = 0
    /\ total_circles' = 0
    /\ optimal_radius' = None
    /\ left' = 0
    /\ right' = 0
    /\ best_radius' = None
    /\ circles' = {}
    /\ attempts' = 0
    /\ prev_radius' = None
    /\ grid_cell' = GridAfterMain(country_code)
    /\ IF CountryFound(country_code)
       THEN /\ current_max_radius' = sr
            /\ pc' = "loop"
       ELSE /\ current_max_radius' = 0
            /\ pc' = "error"

\* mutant: the loop ignores min_radius
LoopConditionNoMin == current_max_radius > 0

\* while current_max_radius >= min_radius
LoopCondition == current_max_radius >= min_radius

\* the while test; entering the body starts _find_largest_possible_radius
LoopCheck ==
    /\ pc = "loop"
    /\ IF LoopCondition
       THEN /\ left' = min_radius
            /\ right' = current_max_radius
            /\ best_radius' = None
            /\ pc' = "search"
       ELSE /\ pc' = "done"
            /\ UNCHANGED <<left, right, best_radius>>
    /\ UNCHANGED <<run, grid_cell, start_radius, min_radius, level, total_circles,
                   current_max_radius, optimal_radius, circles, attempts,
                   prev_radius, prev_run>>

\* right after a probe that placed nothing
RightAfterMiss(mid) == mid - 1

\* one iteration of the binary search, the probe having answered test_circles
SearchIteration(test_circles) ==
    LET mid == (left + right) \div 2
    IN  /\ pc = "search"
        /\ left <= right
        /\ IF test_circles
           THEN /\ best_radius' = mid
                /\ left' = mid + 1
                /\ right' = right
           ELSE /\ right' = RightAfterMiss(mid)
                /\ UNCHANGED <<best_radius, left>>
        /\ UNCHANGED <<pc, run, grid_cell, start_radius, min_radius, level,
                       total_circles, current_max_radius, optimal_radius, circles,
                       attempts, prev_radius, prev_run>>

SearchStep ==
    \E test_circles \in ProbeResults((left + right) \div 2) :
        SearchIteration(test_circles)

\* mutant: a search that finds nothing goes round the loop again
AfterSearchLoops(radius) == IF radius = None \/ radius = 0 THEN "loop" ELSE "pack"

\* "if not optimal_radius: break", else go on to pack
AfterSearch(radius) == IF radius = None \/ radius = 0 THEN "done" ELSE "pack"

\* _find_largest_possible_radius returns best_radius
SearchReturn ==
    /\ pc = "search"
    /\ left > right
    /\ optimal_radius' = best_radius
    /\ pc' = AfterSearch(best_radius)
    /\ UNCHANGED <<run, grid_cell, start_radius, min_radius, level, total_circles,
                   current_max_radius, left, right, best_radius, circles, attempts,
                   prev_radius, prev_run>>

\* level 0, or no uncovered sample point: _pack_circles_systematic(optimal_radius)
\* (its grid phase here, its random fill in RandomAttempt); otherwise the loop
\* over the uncovered sample points
PackLevel ==
    /\ pc = "pack"
    /\ IF level = 0 \/ UncoveredSamplePoints(optimal_radius) = <<>>
       THEN /\ circles' = GridPhase(optimal_radius, None)
            /\ attempts' = Min(RandomAttempts, MaxRandomAttempts)
            /\ pc' = "random"
       ELSE /\ circles' = UncoveredPhase(optimal_radius)
            /\ attempts' = 0
            /\ pc' = "insert"
    /\ UNCHANGED <<run, grid_cell, start_radius, min_radius, level, total_circles,
                   current_max_radius, optimal_radius, left, right, best_radius,
                   prev_radius, prev_run>>

\* one iteration of the random-fill loop of _pack_circles_systematic
RandomAttempt ==
    /\ pc = "random"
    /\ attempts > 0
    /\ \E p \in RandomDraws(MetersToDegrees(optimal_radius)) :
          circles' = IF CanPlaceCircle(p[1], p[2], optimal_radius,
                                       MetersToDegrees(optimal_radius), circles)
                     THEN circles \cup {p} ELSE circles
    /\ attempts' = attempts - 1
    /\ UNCHANGED <<pc, run, grid_cell, start_radius, min_radius, level,
                   total_circles, current_max_radius, optimal_radius, left, right,
                   best_radius, prev_radius, prev_run>>

\* the random-fill loop is over: _pack_circles_systematic returns
RandomDone ==
    /\ pc = "random"
    /\ attempts = 0
    /\ pc' = "insert"
    /\ UNCHANGED <<run, grid_cell, start_radius, min_radius, level, total_circles,
                   current_max_radius, optimal_radius, left, right, best_radius,
                   circles, attempts, prev_radius, prev_run>>

\* mutant: the radius is stored in degrees
InsertCirclesInDegrees(batch, radius_meters, lvl) ==
    grid_cell \cup {[x |-> c[1], y |-> c[2],
                     radius |-> MetersToDegrees(radius_meters),
                     level |-> lvl] : c \in batch}

\* _insert_circles: one row per circle of the batch
InsertCircles(batch, radius_meters, lvl) ==
    grid_cell \cup {[x |-> c[1], y |-> c[2], radius |-> radius_meters,
                     level |-> lvl] : c \in batch}

\* mutant: the next bound is not lowered after a level that placed circles
NextMaxRadiusGrows(radius, placed) == IF placed THEN radius + 1 ELSE radius \div 2

\* the next current_max_radius: smaller after a level that placed circles,
\* halved after one that placed none
NextMaxRadius(radius, placed) == IF placed THEN radius - 1 ELSE radius \div 2

\* mutant: the safety limit lets one more level through
SafetyBreakLate(lvl) == lvl > SafetyLimit + 1

\* "if level > 50: break", evaluated on the incremented level
SafetyBreak(lvl) == lvl > SafetyLimit

\* the end of the loop body, from "if circles:" on, without the insertion
LevelEnd ==
    /\ pc = "insert"
    /\ total_circles' = total_circles + Cardinality(circles)
    /\ current_max_radius' = NextMaxRadius(optimal_radius, circles # {})
    /\ level' = level + 1
    /\ prev_radius' = optimal_radius
    /\ pc' = IF SafetyBreak(level + 1) THEN "done" ELSE "loop"
    /\ circles' = {}
    /\ UNCHANGED <<run, start_radius, min_radius, optimal_radius, left, right,
                   best_radius, attempts, prev_run>>

\* the end of the loop body
InsertLevel ==
    /\ grid_cell' = InsertCircles(circles, optimal_radius, level)
    /\ LevelEnd

StartRadii == 1..MaxStartRadius
MinRadii == 1..MaxMinRadius

Next ==
    \/ \E c \in CountryCodes, sr \in StartRadii, mr \in MinRadii : Main(c, sr, mr)
    \/ LoopCheck
    \/ SearchStep
    \/ SearchReturn
    \/ PackLevel
    \/ RandomAttempt
    \/ RandomDone
    \/ InsertLevel

Spec == Init /\ [][Next]_vars

-----------------------------------------------------------------------------
(* The same program over an arbitrary geometry and database: every probe and *)
(* every packing answers anything.  The stored circles, which matter only    *)
(* through those answers, are not tracked.                                   *)

StartRadiiAny == (1..3) \cup {MaxStartAny}
MinRadiiAny == {1, 2}

\* one invocation of main for a known country
MainAny(sr, mr) == pc = "idle" /\ Main("DEU", sr, mr)

\* one iteration of the binary search, whatever the probe answers
SearchStepAny == \E test_circles \in BOOLEAN : SearchIteration(test_circles)

\* the packing of a level, whatever it places: nothing, or a circle
PackAny ==
    /\ pc = "pack"
    /\ \E batch \in {{}, {<<minx, miny>>}} : circles' = batch
    /\ pc' = "insert"
    /\ UNCHANGED <<run, grid_cell, start_radius, min_radius, level, total_circles,
                   current_max_radius, optimal_radius, left, right, best_radius,
                   attempts, prev_radius, prev_run>>

\* the end of the loop body
InsertAny ==
    /\ grid_cell' = grid_cell
    /\ LevelEnd

NextAny ==
    \/ \E sr \in StartRadiiAny, mr \in MinRadiiAny : MainAny(sr, mr)
    \/ LoopCheck
    \/ SearchStepAny
    \/ SearchReturn
    \/ PackAny
    \/ InsertAny

\* the program is sequential and runs on: a step that can be taken is taken
SpecAny == Init /\ [][NextAny]_vars /\ WF_vars(NextAny)

-----------------------------------------------------------------------------
(* Properties *)

\* two stored circles whose centres are closer, in metres, than the sum of
\* their radii
Overlap(g, h) ==
    LET dx == g.x - h.x
        dy == g.y - h.y
        c  == CosAt(g.y) + CosAt(h.y)
        m  == 2 * DegPerMeter * CosAt(center_lat) * (g.radius + h.radius)
    IN  dx * dx * c * c + 4 * dy * dy * CosDen * CosDen < m * m

\* the stored disk, ST_Buffer(ST_Point(x, y)::geography, radius), lies in the
\* country: it reaches radius metres east, west, north and south of its centre
DiskInCountry(g) ==
    LET m == g.radius * DegPerMeter * CosAt(center_lat)
    IN  /\ (g.x - minx) * CosAt(g.y) >= m
        /\ (maxx - g.x) * CosAt(g.y) >= m
        /\ (g.y - miny) * CosDen >= m
        /\ (maxy - g.y) * CosDen >= m

\* C1: in every reachable state, any two distinct stored circles, of the same
\* level or not, have centres at least the sum of their radii apart.
NoOverlap == \A g, h \in grid_cell : g # h => ~Overlap(g, h)

\* C2: in every reachable state, every stored circle has its whole disk inside
\* the country.
Containment == \A g \in grid_cell : DiskInCountry(g)

\* C3: within a run current_max_radius never increases, and the radius packed
\* at a level is at most the radius packed at the level before, whether that
\* level placed circles or none.
MonotonicRadius ==
    [][run' = run =>
        /\ current_max_radius' <= current_max_radius
        /\ (prev_radius # None => prev_radius' <= prev_radius)
        /\ (prev_radius # None /\ pc' = "pack" => optimal_radius' <= prev_radius)]_vars

\* C3 witness: after a level that placed circles, a level at a smaller radius
\* has placed none and its (halved) bound is about to be set.
MonotonicRadiusWitness ==
    /\ pc = "insert"
    /\ level >= 2
    /\ total_circles > 0
    /\ circles = {}
    /\ prev_radius # None
    /\ optimal_radius < prev_radius

\* C4: whatever the geometry and the database answer, every run that enters
\* the level loop returns, every radius search returns, and no run processes
\* more levels than the safety limit lets through.
Termination ==
    /\ (pc = "loop") ~> (pc = "done")
    /\ (pc = "search") ~> (pc # "search")
    /\ [](level <= SafetyLimit + 1)

\* C4 witness: a run stopped by the safety limit with radii still in range.
TerminationWitness ==
    /\ pc = "done"
    /\ level = SafetyLimit + 1
    /\ current_max_radius >= min_radius

Max(S) == CHOOSE r \in S : \A q \in S : q <= r

\* the radii of the searched range at which the one-circle probe can succeed
ProbeableRadii == {r \in min_radius..current_max_radius : TRUE \in ProbeResults(r)}

\* C5: when the radius search returns, its result is the largest radius of the
\* searched range at which a circle can be placed, and None only if there is
\* no such radius.
FindsLargestRadius ==
    (pc = "search" /\ left > right) =>
        IF ProbeableRadii = {} THEN best_radius = None
        ELSE best_radius = Max(ProbeableRadii)

\* C6 (as claimed): after a run for an unknown country the circle storage is
\* empty.
UnknownCountryClearsGrid == pc = "error" => grid_cell = {}

\* C6 (amended): a run for an unknown country ends in the error without
\* touching the circle storage: it neither stores nor deletes a circle.
UnknownCountryKeepsGrid == [][pc' = "error" => grid_cell' = grid_cell]_vars

\* C6 witness: a run for an unknown country has ended, and the storage still
\* holds the circles of the run before it.
UnknownCountryWitness ==
    /\ pc = "error"
    /\ prev_run.finished
    /\ grid_cell # {}

\* C7: a run with start_radius < min_radius processes no level: it never
\* searches or packs, stores nothing, and returns 0 from an emptied storage.
InvertedBoundsNoOp ==
    (pc # "idle" /\ pc # "error" /\ start_radius < min_radius) =>
        /\ pc \in {"loop", "done"}
        /\ level = 0
        /\ total_circles = 0
        /\ grid_cell = {}
        /\ best_radius = None
        /\ optimal_radius = None

\* C7 witness: such a run has returned, after a run that had stored circles.
InvertedBoundsWitness ==
    /\ pc = "done"
    /\ start_radius < min_radius
    /\ prev_run.finished
    /\ prev_run.total > 0

\* C8 (as claimed): a run that follows a run with the same start_radius and
\* min_radius returns the same count.
RunsReturnSameCount ==
    (pc = "done" /\ prev_run.finished /\ prev_run.start = start_radius
        /\ prev_run.min = min_radius)
    => total_circles = prev_run.total

\* C8 (amended): when a run returns, the stored circles are exactly the ones
\* it counted: nothing of an earlier run is left.
RunCountsItsOwnCircles == pc = "done" => Cardinality(grid_cell) = total_circles

\* C8 witness: two runs in succession with the same arguments have returned
\* different non-zero counts.
RunsDifferWitness ==
    /\ pc = "done"
    /\ prev_run.finished
    /\ prev_run.start = start_radius
    /\ prev_run.min = min_radius
    /\ prev_run.total > 0
    /\ total_circles > 0
    /\ total_circles # prev_run.total

\* the radius search is returning None
SearchReturnsNone == pc = "search" /\ left > right /\ best_radius = None

\* C9 (as claimed): when the search returns None the run goes on looping with
\* current_max_radius reduced to floor(0.85 * current_max_radius).
SearchNoneFallsBack ==
    [][SearchReturnsNone =>
        /\ pc' = "loop"
        /\ current_max_radius' = (current_max_radius * 85) \div 100]_vars

\* C9 (amended): when the search returns None the run stops there: no radius
\* is reduced, no further level is processed, nothing more is stored.
SearchNoneStops ==
    [][SearchReturnsNone =>
        /\ pc' = "done"
        /\ UNCHANGED <<current_max_radius, level, total_circles, grid_cell>>]_vars

\* C9 witness: a run has stopped on a search that found nothing although
\* current_max_radius was still at least min_radius, after a level was stored.
SearchNoneWitness ==
    /\ pc = "done"
    /\ optimal_radius = None
    /\ current_max_radius >= min_radius
    /\ level >= 1

\* C10 (as claimed): every circle a run stores with level 0 has radius
\* start_radius.
LevelZeroAtStartRadius ==
    pc # "error" => \A g \in grid_cell : g.level = 0 => g.radius = start_radius

\* C10 (amended): every circle a run stores with level 0 has the radius the
\* search returned for the range from min_radius to start_radius, which is at
\* most start_radius.
LevelZeroInSearchRange ==
    pc # "error" =>
        \A g \in grid_cell :
            g.level = 0 => (min_radius <= g.radius /\ g.radius <= start_radius)

\* C10 witness: level 0 is stored at a radius below start_radius.
LevelZeroWitness ==
    pc # "error" /\ \E g \in grid_cell : g.level = 0 /\ g.radius < start_radius

=============================================================================
